---- MODULE Spec2Model ----
(***************************************************************************)
(* A state-machine model of deconveil_fit (src/deconveil/dds.py): the      *)
(* construction of the object, the stages of deseq2() and the Cook's       *)
(* outlier refit.                                                          *)
(*                                                                         *)
(* Matrices are sequences of columns (one column per gene, each column a   *)
(* sequence over the samples).  Per-gene arrays are sequences over the     *)
(* genes of the object they belong to.  Dispersions are integers in units  *)
(* of 1e-8 (the default min_disp), NaN is the integer -1.                  *)
(* The numerical collaborators (median-of-ratios, the dispersion MLE, the  *)
(* GLM solver, the gamma GLM of the trend) are deterministic functions of  *)
(* their arguments; what they return for the inputs of a run is fixed by   *)
(* the field num of the inputs, drawn at Init.                             *)
(***************************************************************************)
EXTENDS Integers, Sequences, FiniteSets, TLC

VARIABLES pc, inp, dds, sub, glm

vars == <<pc, inp, dds, sub, glm>>

\* ------------------------------------------------------------------ bounds
NSamples == 3
NGenes == 3
NumOutcomes == 2
SFMax == 2

\* --------------------------------------------------------- program constants
MinDisp == 1
UnitsPerOne == 100000000
DefaultMaxDisp == 10
TrimDenominator == 5

NaN == -1
NoErr == "none"

Samples == 1..NSamples
Genes == 1..NGenes

\* ------------------------------------------------------------------ helpers
Max(a, b) == IF a >= b THEN a ELSE b
Min(a, b) == IF a <= b THEN a ELSE b

IsNaN(x) == x = NaN

RECURSIVE SumSeq(_)
SumSeq(s) == IF Len(s) = 0 THEN 0 ELSE Head(s) + SumSeq(Tail(s))

\* the positions (in order) at which a boolean array is TRUE: np.arange(n)[mask]
RECURSIVE Positions(_, _)
Positions(mask, i) ==
    IF i > Len(mask) THEN <<>>
    ELSE IF mask[i] THEN <<i>> \o Positions(mask, i + 1)
         ELSE Positions(mask, i + 1)

Where(mask) == Positions(mask, 1)

\* number of TRUE entries among mask[1..g]
Rank(mask, g) == Cardinality({i \in 1..g : mask[i]})

CountTrue(mask) == Rank(mask, Len(mask))

\* arr[idx] for an integer index array
Gather(arr, idx) == [i \in 1..Len(idx) |-> arr[idx[i]]]

\* arr[mask] = vals for a boolean mask: the k-th TRUE position takes vals[k]
Scatter(arr, mask, vals) ==
    [g \in 1..Len(arr) |-> IF mask[g] THEN vals[Rank(mask, g)] ELSE arr[g]]

Full(n, v) == [g \in 1..n |-> v]

\* np.clip(x, lo, hi)
ClipNoUpper(x, lo, hi) == IF x < lo THEN lo ELSE x
Clip(x, lo, hi) == IF x < lo THEN lo ELSE IF x > hi THEN hi ELSE x

\* np.sort of a one-dimensional array
Sorted(s) == SortSeq(s, LAMBDA a, b : a < b)

\* ------------------------------------------------------------------- inputs
\* The three kinds of gene column the inputs are built from: all zero, a
\* single count of 1 in the first sample, and a count of 4 in every sample.
ColZero == [s \in Samples |-> 0]
ColSparse == [s \in Samples |-> IF s = 1 THEN 1 ELSE 0]
ColDense == [s \in Samples |-> 4]

ColumnKinds == {ColZero, ColSparse, ColDense}

CountMatrices == [Genes -> ColumnKinds]

\* A CNV matrix of the given shape; gene g has copy number g + 1 in every
\* sample, so that a column tells which gene it belongs to.
CnvMatrix(rows, cols) == [g \in 1..cols |-> [s \in 1..rows |-> g + 1]]

\* The design matrix that build_design_matrix gives for a two-level
\* condition: an intercept and an indicator; the last sample is the only
\* one of the second level.
TwoGroupDesign == [s \in Samples |-> IF s < NSamples THEN <<1, 0>> ELSE <<1, 1>>]

\* The design matrix of a continuous factor that takes a different value in
\* every sample, and the one of a continuous factor that is constant over
\* the samples, whose two columns are equal.
CovariateDesign == [s \in Samples |-> <<1, s>>]
ConstantDesign == [s \in Samples |-> <<1, 1>>]

Designs == {TwoGroupDesign, CovariateDesign, ConstantDesign}

\* np.linalg.matrix_rank of a design matrix of two columns
MatrixRank(design) ==
    IF \E s \in 1..Len(design) : \E t \in 1..Len(design) :
           design[s][1] * design[t][2] # design[s][2] * design[t][1]
    THEN 2
    ELSE IF \E s \in 1..Len(design) : design[s][1] # 0 \/ design[s][2] # 0
    THEN 1
    ELSE 0

\* The constructor's keyword arguments: the defaults of the run and the
\* runs that change one of them.
BaseConfig ==
    [fit_type |-> "parametric", refit_cooks |-> TRUE, min_replicates |-> 2,
     min_disp |-> MinDisp, max_disp |-> DefaultMaxDisp * UnitsPerOne]

ParamConfigs ==
    { BaseConfig,
      [BaseConfig EXCEPT !.fit_type = "mean"],
      [BaseConfig EXCEPT !.refit_cooks = FALSE],
      [BaseConfig EXCEPT !.min_replicates = NSamples],
      [BaseConfig EXCEPT !.max_disp = UnitsPerOne] }

\* What the numerical collaborators return for the inputs of the run:
\* alpha selects the family of dispersion optima, sf is the size-factor
\* vector of the median-of-ratios fit, glm_ok tells whether the gamma GLM of
\* the trend converges to positive coefficients.
SizeFactorChoices ==
    { [s \in Samples |-> 1], [s \in Samples |-> IF s = 1 THEN SFMax ELSE 1] }

Numerics == [alpha : 0..(NumOutcomes - 1), sf : SizeFactorChoices, glm_ok : BOOLEAN]

\* --------------------------------------------------------------- the object
NRows(m) == Len(m[1])
NCols(m) == Len(m)

NaNRow == [kind |-> "nan", counts |-> <<>>, cnv |-> <<>>, disp |-> NaN]
ZeroRow == [kind |-> "zero", counts |-> <<>>, cnv |-> <<>>, disp |-> 0]

\* dds.py:158 the test that guards the ValueError of __init__
ShapeTestBothDiffer(counts, cnv) ==
    NRows(counts) # NRows(cnv) /\ NCols(counts) # NCols(cnv)

ShapeTestAnyDiffers(counts, cnv) ==
    NRows(counts) # NRows(cnv) \/ NCols(counts) # NCols(cnv)

ShapeMismatchRaises(counts, cnv) == ShapeTestBothDiffer(counts, cnv)

\* The object as __init__ leaves it (dds.py:153-217).  keys holds the names
\* present in data/obsm/varm/layers/uns; a field whose name is not in keys
\* holds a placeholder and is never read by the code.
deconveil_fit(counts, var_names, cnv, design, cfg) ==
    [ err |-> IF ShapeMismatchRaises(counts, cnv) THEN "ValueError" ELSE NoErr,
      log |-> <<>>,
      warnings |-> {},
      shared |-> {},
      counts |-> counts,
      counts_type |-> "DataFrame",
      cnv |-> cnv,
      design |-> design,
      var_names |-> var_names,
      n_obs |-> NRows(counts),
      n_vars |-> NCols(counts),
      fit_type |-> cfg.fit_type,
      min_disp |-> cfg.min_disp,
      max_disp |-> Max(cfg.max_disp, NRows(counts) * UnitsPerOne),
      refit_cooks |-> cfg.refit_cooks,
      min_replicates |-> cfg.min_replicates,
      keys |-> {"counts", "cnv", "design_matrix"},
      size_factors |-> <<>>,
      normed_counts |-> <<>>,
      normed_type |-> "DataFrame",
      normed_means |-> <<>>,
      non_zero |-> <<>>,
      non_zero_type |-> "",
      non_zero_idx |-> <<>>,
      non_zero_genes |-> <<>>,
      MoM_dispersions |-> <<>>,
      mu_hat |-> <<>>,
      genewise_dispersions |-> <<>>,
      fitted_dispersions |-> <<>>,
      disp_function_type |-> "",
      trend_coeffs |-> {},
      mean_disp |-> NaN,
      squared_logres |-> NaN,
      prior_disp_var |-> NaN,
      prior_genes |-> <<>>,
      MAP_dispersions |-> <<>>,
      dispersions |-> <<>>,
      outlier_genes |-> <<>>,
      LFC |-> <<>>,
      mu_LFC |-> <<>>,
      cooks |-> <<>>,
      replaceable |-> <<>>,
      replaced |-> <<>>,
      counts_to_refit |-> <<>>,
      refit_names |-> <<>>,
      new_all_zeroes_genes |-> <<>>,
      refitted |-> <<>>,
      replace_cooks |-> <<>> ]

Started(o, stage) == [o EXCEPT !.log = Append(@, stage)]

Has(o, key) == key \in o.keys

\* an exception is propagating: the rest of the method does not run
Raised(o) == o.err # NoErr

\* the value of a statement that is evaluated once: the element of a set
\* of one element
Only(S) == CHOOSE x \in S : TRUE

\* ------------------------------------------------- numerical collaborators
\* The values a dispersion optimiser can return, in units of 1e-8: below
\* min_disp, three values in range, one between 1.0 and n_obs, one above
\* every enforced maximum.
AlphaVals == <<0, 5, 50, 500, 2 * UnitsPerOne, 2 * DefaultMaxDisp * UnitsPerOne>>

\* Inference.alpha_mle for one gene: a function of its arguments.
alpha_mle(num, col, mu, alpha_hat, prior_disp_var, prior_reg) ==
    AlphaVals[((num.alpha + SumSeq(col) + mu + ((alpha_hat + 1) % 7)
                + (IF prior_reg THEN prior_disp_var + 2 ELSE 0)) % Len(AlphaVals)) + 1]

\* Inference.fit_rough_dispersions and fit_moments_dispersions2 for one gene
\* of the normalised counts.
fit_rough_dispersions(num, ncol) ==
    <<3, 30, 300>>[((num.alpha + SumSeq(ncol)) % 3) + 1]

fit_moments_dispersions2(ncol, size_factors) ==
    <<0, 20, 200>>[((SumSeq(ncol) + SumSeq(size_factors)) % 3) + 1]

\* Inference.lin_reg_mu for one gene: the fitted mean, a positive number.
lin_reg_mu(col, size_factors) == 1 + SumSeq(col) + SumSeq(size_factors)

\* irls_glm for one gene: the coefficients are a function of the counts, the
\* CNV offset, the size factors and the dispersion it is called with; the
\* fitted mean is a positive number.
irls_beta(col, cnvcol, size_factors, disp) ==
    [kind |-> "fit", counts |-> col, cnv |-> cnvcol, disp |-> disp]

irls_mu(col, cnvcol, size_factors) ==
    1 + SumSeq(col) + SumSeq(size_factors) + SumSeq(cnvcol)

\* The CNV offsets are kept in tenths: the raw copy numbers (dds.py:522) and
\* the copy numbers rescaled as cnv / 2 + 0.1 (dds.py:737-739).
RawOffset(cnvcol) == [s \in 1..Len(cnvcol) |-> 10 * cnvcol[s]]
RescaledOffset(cnvcol) == [s \in 1..Len(cnvcol) |-> 5 * cnvcol[s] + 1]

\* deseq2_norm_transform: counts / size_factors[:, None].  Normalised counts
\* are kept multiplied by SFMax, which makes them integers.
NormedCol(col, size_factors) ==
    [s \in 1..Len(col) |-> (col[s] * SFMax) \div size_factors[s]]

Normed(counts, size_factors) ==
    [g \in 1..Len(counts) |-> NormedCol(counts[g], size_factors)]

\* normed_counts.mean(0), kept as the column sums (the mean times n_obs)
ColumnMeans(m) == [g \in 1..Len(m) |-> SumSeq(m[g])]

\* dds.py:1264-1277: the warning of a design that is not of full column
\* rank.  No method of the class calls it.
check_full_rank_design(o) ==
    IF MatrixRank(o.design) < Len(o.design[1])
    THEN [o EXCEPT !.warnings = @ \cup {"design matrix is not full rank"}]
    ELSE o

\* ------------------------------------------------------------ size factors
\* dds.py:465 (counts == 0).any().all(): for a DataFrame every gene holds a
\* zero; for an ndarray any() already reduces over the whole matrix.
EveryGeneHasZero(o) ==
    IF o.counts_type = "DataFrame"
    THEN \A g \in 1..o.n_vars : \E s \in 1..o.n_obs : o.counts[g][s] = 0
    ELSE \E g \in 1..o.n_vars : \E s \in 1..o.n_obs : o.counts[g][s] = 0

\* dds.py:1174-1198: the iterative fit sets unit size factors and the
\* design-matrix buffer, then reads self.obs_names, which the class never
\* defines.
fit_iterate_size_factors(o) ==
    [o EXCEPT !.warnings = @ \cup {"iterative size factors"},
              !.size_factors = [s \in 1..o.n_obs |-> 1],
              !.normed_counts = o.counts,
              !.normed_type = o.counts_type,
              !.keys = @ \cup {"size_factors", "normed_counts", "design_matrix_buffer"},
              !.err = "AttributeError"]

\* dds.py:400-488 with fit_type "ratio" and no control genes
fit_size_factors(o0, num) ==
    LET o == Started(o0, "fit_size_factors")
    IN  IF EveryGeneHasZero(o)
        THEN fit_iterate_size_factors(o)
        ELSE LET nc == Normed(o.counts, num.sf)
             IN  [o EXCEPT !.size_factors = num.sf,
                           !.normed_counts = nc,
                           !.normed_type = o.counts_type,
                           !.normed_means = ColumnMeans(nc),
                           !.keys = @ \cup {"size_factors", "normed_counts",
                                            "_normed_means"}]

\* ----------------------------------------------------- genewise dispersions
NonZeroMaskAllGenes(m) == [g \in 1..Len(m) |-> TRUE]

\* dds.py:509: ~(counts == 0).all(axis=0)
NonZeroMask(m) == [g \in 1..Len(m) |-> \E s \in 1..Len(m[g]) : m[g][s] # 0]

\* dds.py:862-886.  Both estimators drop the all-zero columns of the
\* normalised counts themselves; the minimum is clipped and written at the
\* non-zero genes.
MoMEstimateMax(o, num, g) ==
    Max(fit_rough_dispersions(num, o.normed_counts[g]),
        fit_moments_dispersions2(o.normed_counts[g], o.size_factors))

MoMEstimate(o, num, g) ==
    Min(fit_rough_dispersions(num, o.normed_counts[g]),
        fit_moments_dispersions2(o.normed_counts[g], o.size_factors))

MoMBody(o, num) ==
    IF CountTrue(NonZeroMask(o.normed_counts)) # CountTrue(o.non_zero)
    THEN [o EXCEPT !.err = "ValueError"]
    ELSE [o EXCEPT
            !.MoM_dispersions =
                Scatter(Full(o.n_vars, NaN), o.non_zero,
                        [k \in 1..CountTrue(o.non_zero) |->
                            Clip(MoMEstimate(o, num, Where(NonZeroMask(o.normed_counts))[k]),
                                 o.min_disp, o.max_disp)]),
            !.keys = @ \cup {"_MoM_dispersions"}]

fit_MoM_dispersions(o0, num) ==
    Only({IF Raised(o) THEN o ELSE MoMBody(o, num)
          : o \in {IF Has(o0, "normed_counts") THEN o0
                   ELSE fit_size_factors(o0, num)}})

\* dds.py:525-528: the design has as many distinct rows as columns
OneRowPerColumn(design) ==
    Cardinality({design[s] : s \in 1..Len(design)}) = Len(design[1])

\* dds.py:529-544: the fitted means of the non-zero genes
GenewiseMuUnitOffset(o, k) ==
    IF OneRowPerColumn(o.design)
    THEN lin_reg_mu(o.counts[o.non_zero_idx[k]], o.size_factors)
    ELSE irls_mu(o.counts[o.non_zero_idx[k]],
                 [s \in 1..Len(o.cnv[o.non_zero_idx[k]]) |-> 10], o.size_factors)

GenewiseMu(o, k) ==
    IF OneRowPerColumn(o.design)
    THEN lin_reg_mu(o.counts[o.non_zero_idx[k]], o.size_factors)
    ELSE irls_mu(o.counts[o.non_zero_idx[k]], RawOffset(o.cnv[o.non_zero_idx[k]]),
                 o.size_factors)

\* dds.py:567-570: the optimiser's result, clipped
GenewiseDispersion(o, num, k) ==
    Clip(alpha_mle(num, o.counts[o.non_zero_idx[k]], o.mu_hat[o.non_zero_idx[k]],
                   o.MoM_dispersions[o.non_zero_idx[k]], 0, FALSE),
         o.min_disp, o.max_disp)

\* dds.py:509-512: the mask of the genes that are not all zero
GenewiseMask(o) ==
    Only({[o EXCEPT !.non_zero = nz,
                    !.non_zero_type =
                        IF o.counts_type = "DataFrame" THEN "Series" ELSE "ndarray",
                    !.non_zero_idx = Where(nz),
                    !.non_zero_genes = Gather(o.var_names, Where(nz)),
                    !.keys = @ \cup {"non_zero"}]
          : nz \in {NonZeroMask(o.counts)}})

\* dds.py:525-544: the fitted means; non_zero_idx is read through .values
GenewiseMeansScalingCnvInPlace(o) ==
    IF o.counts_type # "DataFrame"
    THEN [o EXCEPT !.err = "AttributeError"]
    ELSE [o EXCEPT
            !.cnv = [g \in 1..Len(o.cnv) |-> RawOffset(o.cnv[g])],
            !.mu_hat = Scatter(Full(o.n_vars, NaN), o.non_zero,
                               [k \in 1..Len(o.non_zero_idx) |-> GenewiseMu(o, k)]),
            !.keys = @ \cup {"_mu_hat"}]

GenewiseMeans(o) ==
    IF o.counts_type # "DataFrame"
    THEN [o EXCEPT !.err = "AttributeError"]
    ELSE [o EXCEPT
            !.mu_hat = Scatter(Full(o.n_vars, NaN), o.non_zero,
                               [k \in 1..Len(o.non_zero_idx) |-> GenewiseMu(o, k)]),
            !.keys = @ \cup {"_mu_hat"}]

\* dds.py:552-573: the dispersions
GenewiseFit(o, num) ==
    [o EXCEPT
        !.genewise_dispersions =
            Scatter(Full(o.n_vars, NaN), o.non_zero,
                    [k \in 1..Len(o.non_zero_idx) |-> GenewiseDispersion(o, num, k)]),
        !.keys = @ \cup {"genewise_dispersions", "_genewise_converged"}]

\* dds.py:491-573
fit_genewise_dispersions(o0, num) ==
    Only({IF Raised(o5) THEN o5 ELSE GenewiseFit(o5, num) : o5 \in
         {IF Raised(o4) THEN o4 ELSE GenewiseMeans(o4) : o4 \in
         {IF Raised(o3) THEN o3 ELSE fit_MoM_dispersions(o3, num) : o3 \in
         {IF Raised(o2) THEN o2 ELSE GenewiseMask(o2) : o2 \in
         {IF Has(o1, "size_factors") THEN o1 ELSE fit_size_factors(o1, num) : o1 \in
         {Started(o0, "fit_genewise_dispersions")}}}}}})

\* --------------------------------------------------------- dispersion trend
MeanTrendFactor == 10
RatioLowInverse == 10000
RatioHigh == 15

\* pydeseq2.utils.dispersion_trend: a0 + a1 / mean, a function of the
\* coefficients and of the normalised mean.
dispersion_trend(x, coeffs) ==
    <<5, 10, 20000>>[((Cardinality(coeffs.genes) + x) % 3) + 1]

\* Inference.dispersion_trend_gamma_glm: the coefficients are a function of
\* the genes that are fitted.
GlmCoeffs(S) == [genes |-> S, start |-> 0]

\* dds.py:928-929: the two starting vectors [0.1, 0.1] and [1.0, 1.0]
OldCoeffsStart == [genes |-> {}, start |-> 2]
CoeffsStart == [genes |-> {}, start |-> 1]

\* dds.py:612-617.  Only the first branch reads uns; the second reads an
\* attribute of the object that no method sets.
DispFunctionRaises(o) == o.disp_function_type # "parametric"

disp_function(o, x) == dispersion_trend(x, o.trend_coeffs)

\* scipy.stats.trim_mean(a, 0.001) of fewer than 1000 values: their mean,
\* nan for no value.
trim_mean(vals) ==
    IF Len(vals) = 0 THEN NaN
    ELSE SumSeq([i \in 1..Len(vals) |-> vals[i] \div Len(vals)])

\* dds.py:977-995
MeanTrendGenes(o) ==
    Where([g \in 1..o.n_vars |->
             o.genewise_dispersions[g] > MeanTrendFactor * o.min_disp])

fit_mean_dispersion_trend(o) ==
    Only({[o EXCEPT !.mean_disp = mean_disp,
                    !.disp_function_type = "mean",
                    !.fitted_dispersions = Full(o.n_vars, mean_disp),
                    !.keys = @ \cup {"mean_disp", "disp_function_type",
                                     "fitted_dispersions"}]
          : mean_disp \in {trim_mean(Gather(o.genewise_dispersions,
                                            MeanTrendGenes(o)))}})

\* position of a gene label in non_zero_genes (dds.py:950-952)
PositionOf(o, label) ==
    CHOOSE p \in 1..Len(o.non_zero_genes) : o.non_zero_genes[p] = label

IndexOfLabel(o, label) == CHOOSE g \in 1..o.n_vars : o.var_names[g] = label

\* dds.py:955-958: the ratio of a fitted gene is out of [1e-4, 15); the
\* genewise dispersion is read from the full array at the position the gene
\* has among the non-zero genes.
RatioOutOfRange(o, S, label) ==
    \E gw \in {o.genewise_dispersions[PositionOf(o, label)]} :
    \E pred \in {dispersion_trend(o.normed_means[IndexOfLabel(o, label)],
                                  GlmCoeffs(S))} :
        /\ ~IsNaN(gw)
        /\ \/ gw <= (pred - 1) \div RatioLowInverse
           \/ gw \div RatioHigh >= pred

\* dds.py:930-964: the loop; S is the index of targets and covariates
RECURSIVE TrendLoop(_, _, _, _, _)
TrendLoop(o, num, S, coeffs, old_coeffs) ==
    IF coeffs = old_coeffs
    THEN [ok |-> TRUE, coeffs |-> coeffs]
    ELSE IF ~num.glm_ok
         THEN [ok |-> FALSE, coeffs |-> coeffs]
         ELSE TrendLoop(o, num, {l \in S : ~RatioOutOfRange(o, S, l)},
                        GlmCoeffs(S), coeffs)

\* dds.py:918-926: the genes the loop starts from
TrendGenes(o) ==
    {l \in {o.non_zero_genes[p] : p \in 1..Len(o.non_zero_genes)} :
        o.normed_means[IndexOfLabel(o, l)] # 0}

\* dds.py:966-975: the coefficients stored and the trend evaluated
StoreTrend(o, coeffs) ==
    Only({[typed EXCEPT
            !.fitted_dispersions =
                Scatter(Full(o.n_vars, NaN), o.non_zero,
                        [k \in 1..Len(o.non_zero_idx) |->
                            disp_function(typed, o.normed_means[o.non_zero_idx[k]])]),
            !.keys = @ \cup {"trend_coeffs", "disp_function_type",
                             "fitted_dispersions"}]
          : typed \in {[o EXCEPT !.trend_coeffs = coeffs,
                                 !.disp_function_type = "parametric"]}})

ParametricTrendBodyNoFallback(o, num) ==
    Only({StoreTrend(o, res.coeffs)
          : res \in {TrendLoop(o, num, TrendGenes(o), CoeffsStart, OldCoeffsStart)}})

ParametricTrendBody(o, num) ==
    Only({IF ~res.ok
          THEN fit_mean_dispersion_trend(
                   [o EXCEPT !.warnings = @ \cup {"trend did not converge"}])
          ELSE StoreTrend(o, res.coeffs)
          : res \in {TrendLoop(o, num, TrendGenes(o), CoeffsStart, OldCoeffsStart)}})

\* dds.py:889-975 with vst = False
fit_parametric_dispersion_trend(o0, num) ==
    Only({IF Raised(o) THEN o ELSE ParametricTrendBody(o, num)
          : o \in {IF Has(o0, "genewise_dispersions") THEN o0
                   ELSE fit_genewise_dispersions(o0, num)}})

TrendBody(o, num) ==
    IF o.fit_type = "parametric" THEN fit_parametric_dispersion_trend(o, num)
    ELSE IF o.fit_type = "mean" THEN fit_mean_dispersion_trend(o)
    ELSE [o EXCEPT !.err = "NotImplementedError"]

\* dds.py:576-610 with vst = False
fit_dispersion_trend(o0, num) ==
    Only({IF Raised(o2) THEN o2 ELSE TrendBody(o2, num) : o2 \in
         {IF Has(o1, "genewise_dispersions") THEN o1
          ELSE fit_genewise_dispersions(o1, num) : o1 \in
         {Started(o0, "fit_dispersion_trend")}}})

\* ---------------------------------------------------------- dispersion prior
PriorFactor == 100

\* the integer part of log10, the logarithm of the model
RECURSIVE Log(_)
Log(v) == IF v < 10 THEN 0 ELSE 1 + Log(v \div 10)

\* twice the median of a non-empty sequence of integers
Median2(vals) ==
    Only({IF Len(vals) % 2 = 1 THEN 2 * srt[(Len(vals) + 1) \div 2]
          ELSE srt[Len(vals) \div 2] + srt[(Len(vals) \div 2) + 1]
          : srt \in {Sorted(vals)}})

Abs(x) == IF x < 0 THEN -x ELSE x

\* pydeseq2.utils.mean_absolute_deviation, median(|x - median(x)|) / 0.6745,
\* returned multiplied by 8 with 1 / 0.6745 taken as 3 / 2; nan for no value.
mean_absolute_deviation(res) ==
    IF Len(res) = 0 \/ \E i \in 1..Len(res) : IsNaN(res[i].gw) \/ IsNaN(res[i].fit)
    THEN NaN
    ELSE Only({Only({3 * Median2([i \in 1..Len(x) |-> Abs(2 * x[i] - med)])
                     : med \in {Median2(x)}})
               : x \in {[i \in 1..Len(res) |-> Log(res[i].gw) - Log(res[i].fit)]}})

\* 64 * polygamma(1, df / 2), rounded
Trigamma64(df) ==
    IF df <= 1 THEN 316 ELSE IF df = 2 THEN 105 ELSE IF df = 3 THEN 60
    ELSE IF df = 4 THEN 41 ELSE 31

\* dds.py:647-654: the genes whose residual is computed.  gene_index holds
\* the positions 0..k-1 of the non-zero genes among themselves, and the
\* full-length arrays are read at these positions.
PriorGeneIndex(o) == [i \in 1..Len(o.non_zero_genes) |-> i]

\* dds.py:655-657: the positions, among gene_index, of the genes whose
\* genewise dispersion is at least 100 * min_disp
PriorUsed(o) ==
    Where([i \in 1..Len(PriorGeneIndex(o)) |->
             o.genewise_dispersions[PriorGeneIndex(o)[i]] >= PriorFactor * o.min_disp])

\* dds.py:651-653: the dispersions whose log residuals are taken
PriorResiduals(o, used) ==
    [j \in 1..Len(used) |->
        [gw |-> o.genewise_dispersions[PriorGeneIndex(o)[used[j]]],
         fit |-> o.fitted_dispersions[PriorGeneIndex(o)[used[j]]]]]

\* dds.py:659-669.  _squared_logres is kept as (8 * MAD)^2, prior_disp_var in
\* the same unit (1/64), whose floor 0.25 is 16.
StorePrior(o, used, mad) ==
    [o EXCEPT
        !.warnings = IF o.n_obs - Len(o.design[1]) <= 3
                     THEN @ \cup {"low residual degrees of freedom"} ELSE @,
        !.prior_genes = Gather(PriorGeneIndex(o), used),
        !.squared_logres = IF IsNaN(mad) THEN NaN ELSE mad * mad,
        !.prior_disp_var =
            IF IsNaN(mad) THEN NaN
            ELSE Max(mad * mad - Trigamma64(o.n_obs - Len(o.design[1])), 16),
        !.keys = @ \cup {"_squared_logres", "prior_disp_var"}]

PriorBody(o) ==
    Only({Only({StorePrior(o, used, mad)
                : mad \in {mean_absolute_deviation(PriorResiduals(o, used))}})
          : used \in {PriorUsed(o)}})

\* dds.py:620-669
fit_dispersion_prior(o0, num) ==
    Only({IF Raised(o2) THEN o2 ELSE PriorBody(o2) : o2 \in
         {IF Has(o1, "fitted_dispersions") THEN o1
          ELSE fit_dispersion_trend(o1, num) : o1 \in
         {Started(o0, "fit_dispersion_prior")}}})

\* ------------------------------------------------------------ MAP dispersions
\* the square root of a perfect square, searched upwards from r
RECURSIVE Sqrt(_, _)
Sqrt(n, r) == IF r * r >= n THEN r ELSE Sqrt(n, r + 1)

\* dds.py:714-716: log(genewise) > log(fitted) + 2 * sqrt(_squared_logres);
\* a comparison with nan is False.
IsDispersionOutlier(gw, fit, squared_logres) ==
    /\ ~IsNaN(gw) /\ ~IsNaN(fit) /\ ~IsNaN(squared_logres)
    /\ 4 * (Log(gw) - Log(fit)) > Sqrt(squared_logres, 0)

\* dds.py:688-707: the optimiser's result for the k-th non-zero gene, clipped
MAPDispersion(o, num, k) ==
    Clip(alpha_mle(num, o.counts[o.non_zero_idx[k]], o.mu_hat[o.non_zero_idx[k]],
                   o.fitted_dispersions[o.non_zero_idx[k]], o.prior_disp_var, TRUE),
         o.min_disp, o.max_disp)

\* dds.py:709-720: the MAP values stored; the dispersion of an outlier gene
\* is its genewise dispersion
StoreMAPAlwaysShrunk(o, map, outl) ==
    [o EXCEPT
        !.MAP_dispersions = map,
        !.outlier_genes = outl,
        !.dispersions = map,
        !.keys = @ \cup {"MAP_dispersions", "_MAP_converged", "dispersions",
                         "_outlier_genes"}]

StoreMAP(o, map, outl) ==
    [o EXCEPT
        !.MAP_dispersions = map,
        !.outlier_genes = outl,
        !.dispersions =
            [g \in 1..o.n_vars |-> IF outl[g] THEN o.genewise_dispersions[g] ELSE map[g]],
        !.keys = @ \cup {"MAP_dispersions", "_MAP_converged", "dispersions",
                         "_outlier_genes"}]

MAPBodyWarmStart(o, num) ==
    IF o.counts_type # "DataFrame"
    THEN [o EXCEPT !.err = "AttributeError"]
    ELSE StoreMAP(o,
                  IF Has(o, "dispersions") THEN o.dispersions
                  ELSE Scatter(Full(o.n_vars, NaN), o.non_zero,
                               [k \in 1..Len(o.non_zero_idx) |-> MAPDispersion(o, num, k)]),
                  [g \in 1..o.n_vars |->
                      IsDispersionOutlier(o.genewise_dispersions[g],
                                          o.fitted_dispersions[g], o.squared_logres)])

MAPBody(o, num) ==
    IF o.counts_type # "DataFrame"
    THEN [o EXCEPT !.err = "AttributeError"]
    ELSE StoreMAP(o,
                  Scatter(Full(o.n_vars, NaN), o.non_zero,
                          [k \in 1..Len(o.non_zero_idx) |-> MAPDispersion(o, num, k)]),
                  [g \in 1..o.n_vars |->
                      IsDispersionOutlier(o.genewise_dispersions[g],
                                          o.fitted_dispersions[g], o.squared_logres)])

\* dds.py:671-720
fit_MAP_dispersions(o0, num) ==
    Only({IF Raised(o2) THEN o2 ELSE MAPBody(o2, num) : o2 \in
         {IF Has(o1, "prior_disp_var") THEN o1
          ELSE fit_dispersion_prior(o1, num) : o1 \in
         {Started(o0, "fit_MAP_dispersions")}}})

\* ------------------------------------------------------------------------ LFC
\* dds.py:744-752: the coefficients of the k-th non-zero gene
LFCRow(o, k) ==
    irls_beta(o.counts[o.non_zero_idx[k]], RescaledOffset(o.cnv[o.non_zero_idx[k]]),
              o.size_factors, o.dispersions[o.non_zero_idx[k]])

\* dds.py:723-776.  DataFrame.update writes the rows of the non-zero genes by
\* their labels.
LFCBody(o) ==
    IF o.counts_type # "DataFrame"
    THEN [o EXCEPT !.err = "AttributeError"]
    ELSE [o EXCEPT
            !.LFC = [g \in 1..o.n_vars |->
                        IF \E k \in 1..Len(o.non_zero_idx) :
                               o.non_zero_genes[k] = o.var_names[g]
                        THEN LFCRow(o, CHOOSE k \in 1..Len(o.non_zero_idx) :
                                         o.non_zero_genes[k] = o.var_names[g])
                        ELSE NaNRow],
            !.mu_LFC = [k \in 1..Len(o.non_zero_idx) |->
                          irls_mu(o.counts[o.non_zero_idx[k]],
                                  RescaledOffset(o.cnv[o.non_zero_idx[k]]),
                                  o.size_factors)],
            !.keys = @ \cup {"LFC", "_mu_LFC", "_hat_diagonals", "_LFC_converged"}]

fit_LFC(o0, num) ==
    Only({IF Raised(o2) THEN o2 ELSE LFCBody(o2) : o2 \in
         {IF Has(o1, "dispersions") THEN o1
          ELSE fit_MAP_dispersions(o1, num) : o1 \in
         {Started(o0, "fit_LFC")}}})

\* ------------------------------------------------------------ Cook's distances
CooksLow == 0
CooksHigh == 1000

\* scipy.stats.f.ppf(0.99, num_vars, num_samples - num_vars): a positive
\* number between the two Cook's distances of the model
cooks_cutoff(num_vars, df) == 10 * num_vars + df

\* dds.py:779-835.  cells are the (gene, sample) entries of the non-zero genes
\* whose distance comes out high.  The method turns non_zero, the normalised
\* counts and the counts into ndarrays, in this order, and reads _mu_LFC.
CooksBody(o, cells) ==
    IF o.non_zero_type # "Series" \/ o.normed_type # "DataFrame"
    THEN [o EXCEPT !.err = "AttributeError"]
    ELSE IF o.counts_type # "DataFrame"
    THEN [o EXCEPT !.normed_type = "ndarray", !.err = "AttributeError"]
    ELSE IF ~Has(o, "_mu_LFC")
    THEN [o EXCEPT !.normed_type = "ndarray", !.counts_type = "ndarray",
                   !.err = "KeyError"]
    ELSE [o EXCEPT
            !.normed_type = "ndarray",
            !.counts_type = "ndarray",
            !.cooks = [g \in 1..o.n_vars |->
                         [s \in 1..o.n_obs |->
                            IF ~o.non_zero[g] THEN NaN
                            ELSE IF <<g, s>> \in cells THEN CooksHigh
                            ELSE CooksLow]],
            !.keys = @ \cup {"cooks"}]

calculate_cooks(o0, num, cells) ==
    Only({IF Raised(o2) THEN o2 ELSE CooksBody(o2, cells) : o2 \in
         {IF Has(o1, "dispersions") THEN o1
          ELSE fit_MAP_dispersions(o1, num) : o1 \in
         {Started(o0, "calculate_cooks")}}})

\* ---------------------------------------------------------- outlier replacement
\* pydeseq2.utils.n_or_more_replicates: the samples whose design row occurs
\* at least min_replicates times
n_or_more_replicates(design, min_replicates) ==
    [s \in 1..Len(design) |->
        Cardinality({t \in 1..Len(design) : design[t] = design[s]}) >= min_replicates]

\* pydeseq2.utils.trimmed_mean(x, trim=0.2, axis=0) of one column, as the sum
\* and the number of the values kept
trimmed_mean(col) ==
    [sum |-> SumSeq(SubSeq(Sorted(col), (Len(col) \div TrimDenominator) + 1,
                           Len(col) - (Len(col) \div TrimDenominator))),
     n |-> Len(col) - 2 * (Len(col) \div TrimDenominator)]

\* dds.py:1045-1052: int(trimmed mean of the normalised counts * size factor)
ReplacementCount(col, size_factors, s) ==
    Only({(tm.sum * size_factors[s]) \div (tm.n * SFMax)
          : tm \in {trimmed_mean(NormedCol(col, size_factors))}})

\* dds.py:1022: the entries above the cutoff; a comparison with nan is False
AboveCutoff(o) ==
    [g \in 1..o.n_vars |->
        [s \in 1..o.n_obs |->
            o.cooks[g][s] > cooks_cutoff(Len(o.design[1]), o.n_obs - Len(o.design[1]))]]

\* dds.py:1023: the genes with an entry above the cutoff
ReplacedGenesAnyOutlier(o) ==
    [g \in 1..o.n_vars |->
        o.non_zero[g] /\ \E h \in 1..o.n_vars : \E s \in 1..o.n_obs : AboveCutoff(o)[h][s]]

ReplacedGenes(o) ==
    [g \in 1..o.n_vars |-> \E s \in 1..o.n_obs : AboveCutoff(o)[g][s]]

\* dds.py:1012: no sample belongs to a cohort that is large enough
NoReplaceableSampleIgnored(replaceable) == FALSE
NoReplaceableSample(replaceable) == CountTrue(replaceable) = 0

\* dds.py:1054-1068: the entries of counts_to_refit that get the replacement
\* count: every gene of a row in which some gene has a masked entry
IsReplacedEntry(replace_mask, j, s) == \E i \in 1..Len(replace_mask) : replace_mask[i][s]

\* dds.py:1054-1056: the mask of the entries to replace, over the replaced
\* genes
ReplaceMask(o, replaceable, cols) ==
    [j \in 1..Len(cols) |->
        [s \in 1..o.n_obs |-> replaceable[s] /\ AboveCutoff(o)[cols[j]][s]]]

\* dds.py:1030-1068: the counts of the replaced genes, with the replacement
\* count at the entries that are replaced
CountsToRefit(o, cols, replace_mask) ==
    [j \in 1..Len(cols) |->
        [s \in 1..o.n_obs |->
            IF IsReplacedEntry(replace_mask, j, s)
            THEN ReplacementCount(o.counts[cols[j]], o.size_factors, s)
            ELSE o.counts[cols[j]][s]]]

\* dds.py:1009-1068
StoreReplaced(o, replaceable, replaced) ==
    IF NoReplaceableSample(replaceable)
    THEN [o EXCEPT !.replaceable = replaceable,
                   !.replaced = Full(o.n_vars, FALSE),
                   !.keys = @ \cup {"replaceable", "replaced"}]
    ELSE IF CountTrue(replaced) = 0
    THEN [o EXCEPT !.replaceable = replaceable,
                   !.replaced = replaced,
                   !.keys = @ \cup {"replaceable", "replaced"}]
    ELSE [o EXCEPT
            !.replaceable = replaceable,
            !.replaced = replaced,
            !.refit_names = Gather(o.var_names, Where(replaced)),
            !.counts_to_refit =
                CountsToRefit(o, Where(replaced),
                              ReplaceMask(o, replaceable, Where(replaced))),
            !.keys = @ \cup {"replaceable", "replaced", "counts_to_refit"}]

\* dds.py:998-1068
replace_outliers(o0, num, cells) ==
    Only({IF Raised(o) THEN o
          ELSE StoreReplaced(o, n_or_more_replicates(o.design, o.min_replicates),
                             ReplacedGenes(o))
          : o \in {IF Has(o0, "cooks") THEN o0 ELSE calculate_cooks(o0, num, cells)}})

\* ------------------------------------------------------------------- the refit
\* The field shared of an object names the entries whose value is the very
\* object another deconveil_fit holds: an assignment without a copy
\* (dds.py:156, 1111, 1125, 1137) makes the two entries one array.
\* dds.py:1105-1129: the sub-problem is built from the counts to refit and
\* from the parent's whole CNV matrix, and is given the parent's size factors
SubProblem(o, counts, names) ==
    Only({IF Raised(made) THEN made
          ELSE [made EXCEPT !.size_factors = o.size_factors,
                            !.shared = @ \cup {"cnv", "size_factors"},
                            !.normed_counts = Normed(counts, o.size_factors),
                            !.keys = @ \cup {"size_factors", "normed_counts"}]
          : made \in {deconveil_fit(counts, names, o.cnv, o.design,
                                    [fit_type |-> "parametric",
                                     refit_cooks |-> o.refit_cooks,
                                     min_replicates |-> o.min_replicates,
                                     min_disp |-> o.min_disp,
                                     max_disp |-> o.max_disp])}})

\* dds.py:1134-1145: the trend of the parent, evaluated at the sub-problem's
\* normalised means
SubTrendTyped(o, sb) ==
    [sb EXCEPT !.disp_function_type = o.disp_function_type,
               !.trend_coeffs = IF o.disp_function_type = "parametric"
                                THEN o.trend_coeffs ELSE @,
               !.mean_disp = IF o.disp_function_type = "mean"
                             THEN o.mean_disp ELSE @,
               !.shared = @ \cup (IF o.disp_function_type = "parametric"
                                  THEN {"trend_coeffs"} ELSE {}),
               !.normed_means = ColumnMeans(sb.normed_counts),
               !.keys = @ \cup {"disp_function_type", "_normed_means"}
                          \cup (IF o.disp_function_type = "parametric"
                                THEN {"trend_coeffs"} ELSE {"mean_disp"})]

SubTrend(o, sb) ==
    Only({IF DispFunctionRaises(typed)
          THEN [typed EXCEPT !.err = "AttributeError"]
          ELSE [typed EXCEPT
                  !.fitted_dispersions =
                      [j \in 1..sb.n_vars |->
                          disp_function(typed, typed.normed_means[j])],
                  !.keys = @ \cup {"fitted_dispersions"}]
          : typed \in {SubTrendTyped(o, sb)}})

\* dds.py:1147-1150
SubPrior(o, sb) ==
    [sb EXCEPT !.squared_logres = o.squared_logres,
               !.prior_disp_var = o.prior_disp_var,
               !.keys = @ \cup {"_squared_logres", "prior_disp_var"}]

FitSubProblemWithCooks(o, sb0, num) ==
    Only({IF Raised(sb5) THEN sb5 ELSE calculate_cooks(sb5, num, {}) : sb5 \in
         {IF Raised(sb4) THEN sb4 ELSE fit_LFC(sb4, num) : sb4 \in
         {IF Raised(sb3) THEN sb3 ELSE fit_MAP_dispersions(sb3, num) : sb3 \in
         {IF Raised(sb2) THEN sb2 ELSE SubPrior(o, sb2) : sb2 \in
         {IF Raised(sb1) THEN sb1 ELSE SubTrend(o, sb1) : sb1 \in
         {fit_genewise_dispersions(sb0, num)}}}}}})

\* dds.py:1132-1155: what the sub-problem runs
FitSubProblem(o, sb0, num) ==
    Only({IF Raised(sb4) THEN sb4 ELSE fit_LFC(sb4, num) : sb4 \in
         {IF Raised(sb3) THEN sb3 ELSE fit_MAP_dispersions(sb3, num) : sb3 \in
         {IF Raised(sb2) THEN sb2 ELSE SubPrior(o, sb2) : sb2 \in
         {IF Raised(sb1) THEN sb1 ELSE SubTrend(o, sb1) : sb1 \in
         {fit_genewise_dispersions(sb0, num)}}}}})

\* dds.py:1157-1166: the results of the sub-problem written over the
\* parent's at the refitted genes
MergeAt(o, sb, mask) ==
    [o EXCEPT
        !.normed_means = Scatter(@, mask, sb.normed_means),
        !.LFC = Scatter(@, mask, sb.LFC),
        !.genewise_dispersions = Scatter(@, mask, sb.genewise_dispersions),
        !.fitted_dispersions = Scatter(@, mask, sb.fitted_dispersions),
        !.dispersions = Scatter(@, mask, sb.dispersions)]

MergeAtFirstPositions(o, sb) == MergeAt(o, sb, [g \in 1..o.n_vars |-> g <= sb.n_vars])

MergeRefit(o, sb) == MergeAt(o, sb, o.refitted)

\* dds.py:1168-1171
ReplaceCooks(o) ==
    [o EXCEPT !.replace_cooks =
                 [g \in 1..o.n_vars |->
                    [s \in 1..o.n_obs |->
                        IF o.replaceable[s] /\ o.refitted[g] THEN 0 ELSE o.cooks[g][s]]],
              !.keys = @ \cup {"replace_cooks"}]

\* dds.py:1083-1096: the flags, and the genes that replacement left all zero
NewAllZeroesNone(o) == [j \in 1..Len(o.counts_to_refit) |-> FALSE]

NewAllZeroes(o) ==
    [j \in 1..Len(o.counts_to_refit) |->
        \A s \in 1..o.n_obs : o.counts_to_refit[j][s] = 0]

IsNewZero(o, zero_names, g) ==
    \E i \in 1..Len(zero_names) : zero_names[i] = o.var_names[g]

StoreNewAllZeroes(o, new_all_zeroes, zero_names) ==
    [o EXCEPT
        !.new_all_zeroes_genes = zero_names,
        !.refitted = Scatter(o.replaced, o.replaced,
                             [j \in 1..Len(new_all_zeroes) |-> ~new_all_zeroes[j]]),
        !.normed_means =
            [g \in 1..o.n_vars |-> IF IsNewZero(o, zero_names, g) THEN 0 ELSE @[g]],
        !.LFC =
            [g \in 1..o.n_vars |-> IF IsNewZero(o, zero_names, g) THEN ZeroRow ELSE @[g]],
        !.keys = @ \cup {"refitted"}]

MarkNewAllZeroes(o) ==
    Only({StoreNewAllZeroes(o, zeroes, Gather(o.refit_names, Where(zeroes)))
          : zeroes \in {NewAllZeroes(o)}})

\* dds.py:1101: the genes that replacement left all zero are dropped from
\* the counts to refit
DropNewAllZeroes(o1, o2) ==
    Only({[o2 EXCEPT !.counts_to_refit = Gather(@, keep),
                     !.refit_names = Gather(@, keep)]
          : keep \in {Where([j \in 1..Len(o1.counts_to_refit) |->
                                ~NewAllZeroes(o1)[j]])}})

\* dds.py:1105-1171: the sub-problem built, fitted and merged.  The result
\* is the parent and the sub-problem.
MergeAndReplaceCooks(o, sb) ==
    IF Raised(sb)
    THEN [dds |-> [o EXCEPT !.err = sb.err], sub |-> <<sb>>]
    ELSE [dds |-> Only({ReplaceCooks(o4) : o4 \in {MergeRefit(o, sb)}}),
          sub |-> <<sb>>]

RefitAndMerge(o3, num) ==
    Only({MergeAndReplaceCooks(o3, sb) : sb \in
         {IF Raised(sb0) THEN sb0 ELSE FitSubProblem(o3, sb0, num) : sb0 \in
         {SubProblem(o3, o3.counts_to_refit, o3.refit_names)}}})

\* dds.py:1083-1171, after the flags are known
RefitRest(o1, num) ==
    Only({IF CountTrue(o2.refitted) = 0 THEN [dds |-> o2, sub |-> <<>>]
          ELSE Only({RefitAndMerge(o3, num) : o3 \in {DropNewAllZeroes(o1, o2)}})
          : o2 \in {MarkNewAllZeroes(o1)}})

\* dds.py:1071-1171.  The result is the parent and, when one was built, the
\* sub-problem.
refit_without_outliers(o0, num, cells) ==
    Only({IF Raised(o1) THEN [dds |-> o1, sub |-> <<>>] ELSE RefitRest(o1, num)
          : o1 \in {IF ~o0.refit_cooks THEN [o0 EXCEPT !.err = "AssertionError"]
                    ELSE IF Has(o0, "replaced") THEN o0
                    ELSE replace_outliers(o0, num, cells)}})

\* dds.py:837-859
refit(o0, num, cells) ==
    Only({IF Raised(o1) THEN [dds |-> o1, sub |-> <<>>]
          ELSE IF CountTrue(o1.replaced) > 0
          THEN refit_without_outliers(o1, num, cells)
          ELSE [dds |-> [o1 EXCEPT !.refitted = Full(o1.n_vars, FALSE),
                                   !.keys = @ \cup {"refitted"}],
                sub |-> <<>>]
          : o1 \in {replace_outliers(Started(o0, "refit"), num, cells)}})

\* ------------------------------------------------------------------ the run
GeneNames == [g \in Genes |-> g]

\* the position of deseq2() after a stage (dds.py:376-398)
AfterStageWithoutTrend(o, next) ==
    IF o.err # NoErr THEN "aborted"
    ELSE IF next = "fit_dispersion_trend" THEN "fit_dispersion_prior"
    ELSE next

AfterStage(o, next) == IF o.err # NoErr THEN "aborted" ELSE next

\* the sets of at most two entries of the non-zero genes
OutlierCells(o) ==
    LET cells == {c \in (1..o.n_vars) \X (1..o.n_obs) : o.non_zero[c[1]]}
    IN  {{}} \cup {{a, b} : a \in cells, b \in cells}

\* Every configuration with the two-group design, and the default
\* configuration with the other designs.
Inputs ==
    [counts : CountMatrices, cnv : {CnvMatrix(NSamples, NGenes)},
     design : {TwoGroupDesign}, cfg : ParamConfigs, num : Numerics]
    \cup
    [counts : CountMatrices, cnv : {CnvMatrix(NSamples, NGenes)},
     design : Designs, cfg : {BaseConfig}, num : Numerics]

Init ==
    /\ pc = "construct"
    /\ inp \in Inputs
    /\ dds = <<>>
    /\ sub = <<>>
    /\ glm = <<>>

Construct ==
    /\ pc = "construct"
    /\ dds' = deconveil_fit(inp.counts, GeneNames, inp.cnv, inp.design, inp.cfg)
    /\ pc' = AfterStage(dds', "fit_size_factors")
    /\ UNCHANGED <<inp, sub, glm>>

FitSizeFactors ==
    /\ pc = "fit_size_factors"
    /\ dds' = fit_size_factors(dds, inp.num)
    /\ pc' = AfterStage(dds', "fit_genewise_dispersions")
    /\ UNCHANGED <<inp, sub, glm>>

FitGenewiseDispersions ==
    /\ pc = "fit_genewise_dispersions"
    /\ dds' = fit_genewise_dispersions(dds, inp.num)
    /\ pc' = AfterStage(dds', "fit_dispersion_trend")
    /\ UNCHANGED <<inp, sub, glm>>

FitDispersionTrend ==
    /\ pc = "fit_dispersion_trend"
    /\ dds' = fit_dispersion_trend(dds, inp.num)
    /\ pc' = AfterStage(dds', "fit_dispersion_prior")
    /\ UNCHANGED <<inp, sub, glm>>

FitDispersionPrior ==
    /\ pc = "fit_dispersion_prior"
    /\ dds' = fit_dispersion_prior(dds, inp.num)
    /\ pc' = AfterStage(dds', "fit_MAP_dispersions")
    /\ UNCHANGED <<inp, sub, glm>>

FitMAPDispersions ==
    /\ pc = "fit_MAP_dispersions"
    /\ dds' = fit_MAP_dispersions(dds, inp.num)
    /\ pc' = AfterStage(dds', "fit_LFC")
    /\ UNCHANGED <<inp, sub, glm>>

FitLFC ==
    /\ pc = "fit_LFC"
    /\ dds' = fit_LFC(dds, inp.num)
    /\ pc' = AfterStage(dds', "calculate_cooks")
    /\ UNCHANGED <<inp, sub, glm>>

CalculateCooks ==
    /\ pc = "calculate_cooks"
    /\ \E cells \in OutlierCells(dds) : dds' = calculate_cooks(dds, inp.num, cells)
    /\ pc' = AfterStage(dds', IF dds.refit_cooks THEN "refit" ELSE "done")
    /\ UNCHANGED <<inp, sub, glm>>

Refit ==
    /\ pc = "refit"
    /\ \E r \in {refit(dds, inp.num, {})} :
           /\ dds' = r.dds
           /\ sub' = r.sub
    /\ pc' = AfterStage(dds', "done")
    /\ UNCHANGED <<inp, glm>>

Next ==
    \/ Construct
    \/ FitSizeFactors
    \/ FitGenewiseDispersions
    \/ FitDispersionTrend
    \/ FitDispersionPrior
    \/ FitMAPDispersions
    \/ FitLFC
    \/ CalculateCooks
    \/ Refit

Spec == Init /\ [][Next]_vars

\* ------------------------------------------- fit_MAP_dispersions called twice
\* The stages up to fit_MAP_dispersions, followed by a second call of
\* fit_MAP_dispersions on the same object with nothing changed in between.
FitMAPDispersionsAgain ==
    /\ pc = "fit_LFC"
    /\ dds' = fit_MAP_dispersions(dds, inp.num)
    /\ pc' = AfterStage(dds', "called_twice")
    /\ UNCHANGED <<inp, sub, glm>>

NextMAPTwice ==
    \/ Construct
    \/ FitSizeFactors
    \/ FitGenewiseDispersions
    \/ FitDispersionTrend
    \/ FitDispersionPrior
    \/ FitMAPDispersions
    \/ FitMAPDispersionsAgain

SpecMAPTwice == Init /\ [][NextMAPTwice]_vars

\* ------------------------------------------- deseq2() called a second time
MaxRuns == 2

FitTypes == {"parametric", "mean"}

\* the number of calls of deseq2() the object has seen: each one starts with
\* fit_size_factors
Runs(o) == Cardinality({i \in 1..Len(o.log) : o.log[i] = "fit_size_factors"})

\* dds.py:375-378: deseq2(fit_type) called on the object of a completed
\* run; the stages follow as in the first run
DeseqAgain ==
    /\ pc = "done"
    /\ Runs(dds) < MaxRuns
    /\ \E ft \in FitTypes : dds' = [dds EXCEPT !.fit_type = ft]
    /\ pc' = "fit_size_factors"
    /\ UNCHANGED <<inp, sub, glm>>

NextRerun ==
    \/ Construct
    \/ FitSizeFactors
    \/ FitGenewiseDispersions
    \/ FitDispersionTrend
    \/ FitDispersionPrior
    \/ FitMAPDispersions
    \/ FitLFC
    \/ CalculateCooks
    \/ Refit
    \/ DeseqAgain

SpecRerun == Init /\ [][NextRerun]_vars

\* ------------------------------------- a stage called on a fresh object
\* One public stage method called on the object the constructor has just
\* returned, instead of deseq2().
CallFitGenewiseDispersions ==
    /\ pc = "fit_size_factors"
    /\ dds' = fit_genewise_dispersions(dds, inp.num)
    /\ pc' = AfterStage(dds', "called")
    /\ UNCHANGED <<inp, sub, glm>>

CallFitDispersionTrend ==
    /\ pc = "fit_size_factors"
    /\ dds' = fit_dispersion_trend(dds, inp.num)
    /\ pc' = AfterStage(dds', "called")
    /\ UNCHANGED <<inp, sub, glm>>

CallFitDispersionPrior ==
    /\ pc = "fit_size_factors"
    /\ dds' = fit_dispersion_prior(dds, inp.num)
    /\ pc' = AfterStage(dds', "called")
    /\ UNCHANGED <<inp, sub, glm>>

CallFitMAPDispersions ==
    /\ pc = "fit_size_factors"
    /\ dds' = fit_MAP_dispersions(dds, inp.num)
    /\ pc' = AfterStage(dds', "called")
    /\ UNCHANGED <<inp, sub, glm>>

CallFitLFC ==
    /\ pc = "fit_size_factors"
    /\ dds' = fit_LFC(dds, inp.num)
    /\ pc' = AfterStage(dds', "called")
    /\ UNCHANGED <<inp, sub, glm>>

CallCalculateCooks ==
    /\ pc = "fit_size_factors"
    /\ dds' = calculate_cooks(dds, inp.num, {})
    /\ pc' = AfterStage(dds', "called")
    /\ UNCHANGED <<inp, sub, glm>>

CallRefit ==
    /\ pc = "fit_size_factors"
    /\ \E r \in {refit(dds, inp.num, {})} :
           /\ dds' = r.dds
           /\ sub' = r.sub
    /\ pc' = AfterStage(dds', "called")
    /\ UNCHANGED <<inp, glm>>

NextDirect ==
    \/ Construct
    \/ CallFitGenewiseDispersions
    \/ CallFitDispersionTrend
    \/ CallFitDispersionPrior
    \/ CallFitMAPDispersions
    \/ CallFitLFC
    \/ CallCalculateCooks
    \/ CallRefit

SpecDirect == Init /\ [][NextDirect]_vars

\* ------------------------------------------------ construction on its own
\* The constructor called with CNV matrices of every shape that has the
\* rows and columns of the counts or one more of either.
CnvShapes ==
    {CnvMatrix(r, c) : r \in {NSamples, NSamples + 1}, c \in {NGenes, NGenes + 1}}

InputsCtor ==
    [counts : CountMatrices, cnv : CnvShapes, design : {TwoGroupDesign},
     cfg : {BaseConfig}, num : Numerics]

InitCtor ==
    /\ pc = "construct"
    /\ inp \in InputsCtor
    /\ dds = <<>>
    /\ sub = <<>>
    /\ glm = <<>>

NextCtor == Construct

SpecCtor == InitCtor /\ [][NextCtor]_vars

\* ------------------------------------------------------------- irls_glm
\* One call of irls_glm for one gene (utils_pydeseqCN-checkpoint.py:53-160).
\* A coefficient vector is a sequence of integers; the fitted mean, in
\* halves, is a function of the coefficients.  What the linear solves, the
\* deviance and scipy's minimize return is chosen at each step.
MaxIter == 3
MaxVars == 3

MaxBeta == 30
MinMu == 1

\* the coefficients a solve can return: a mean below min_mu, a mean above
\* it, and a coefficient beyond max_beta
InRangeBetas == {-1, 1}
SolvedBetas == InRangeBetas \cup {MaxBeta + 1}

BetaVector(n, b) == [k \in 1..n |-> IF k = 1 THEN b ELSE 0]

\* cnv * size_factors * np.exp(X @ beta), in halves
ExpMu(beta) == IF beta[1] < 0 THEN 0 ELSE 2 * beta[1]

\* np.maximum(..., min_mu) (lines 88, 128, 139, 143)
FlooredMu(beta) == Max(ExpMu(beta), MinMu)

\* line 99: sum(np.abs(beta_hat) > max_beta) > 0
OutOfRange(beta) == \E k \in 1..Len(beta) : Abs(beta[k]) > MaxBeta

\* line 99: the test that leaves the loop for the fallback, after i += 1
LeavesLoopLate(beta_hat, i) == OutOfRange(beta_hat) \/ i > MaxIter
LeavesLoop(beta_hat, i) == OutOfRange(beta_hat) \/ i >= MaxIter

\* line 131: the test that guards the grid search
GridSearchGuard(success, num_vars) == ~success /\ num_vars <= 2

\* grid_fit_beta (lines 209-252), called with the shapes of its arguments:
\* line 228 indexes cnv as an array and multiplies the design matrix by
\* vectors of two coefficients.
grid_fit_beta_raises(counts, size_factors, design_matrix, disp, cnv) ==
    cnv # "vector" \/ design_matrix # "matrix of 2 columns"

\* lines 132-138: the call passes counts, size_factors, cnv, X, disp in this
\* order
GridCallRaises(num_vars) ==
    grid_fit_beta_raises("vector", "vector", "vector",
                         IF num_vars = 2 THEN "matrix of 2 columns" ELSE "matrix",
                         "scalar")

\* lines 209-214: the parameters of grid_fit_beta, in order
GridParameters == <<"counts", "size_factors", "design_matrix", "disp", "cnv">>

\* lines 132-138: the arguments of the call, in order
GridCallArguments == <<"counts", "size_factors", "cnv", "X", "disp">>

\* the argument each parameter of grid_fit_beta receives in that call
GridBinding ==
    [p \in {GridParameters[k] : k \in 1..Len(GridParameters)} |->
        GridCallArguments[CHOOSE k \in 1..Len(GridParameters) : GridParameters[k] = p]]

IrlsArgs == [num_vars : 1..MaxVars, full_rank : BOOLEAN]

IrlsFrame(args) ==
    [pc |-> "start", num_vars |-> args.num_vars, full_rank |-> args.full_rank,
     init |-> "", beta_init |-> <<>>, beta |-> <<>>, mu |-> 0, i |-> 0,
     updates |-> 0, dev_small |-> FALSE, out_of_range |-> FALSE,
     fallback |-> FALSE, success |-> FALSE, grid |-> FALSE, converged |-> FALSE,
     grid_bound |-> <<>>, err |-> NoErr, ret |-> <<>>]

\* lines 69-91
irls_start(f, b) ==
    [f EXCEPT !.pc = "loop",
              !.init = IF f.full_rank THEN "qr" ELSE "log base mean",
              !.beta_init = BetaVector(f.num_vars, b),
              !.beta = BetaVector(f.num_vars, b),
              !.mu = FlooredMu(BetaVector(f.num_vars, b)),
              !.converged = TRUE,
              !.i = 0]

\* lines 100-140: minimize, and the grid search when it failed
irls_fallback(f, beta_hat, x, success) ==
    IF GridSearchGuard(success, f.num_vars)
    THEN [f EXCEPT !.i = @ + 1, !.out_of_range = OutOfRange(beta_hat),
                   !.fallback = TRUE, !.success = success,
                   !.beta = x, !.mu = FlooredMu(x), !.converged = success,
                   !.grid = TRUE, !.grid_bound = GridBinding,
                   !.err = IF GridCallRaises(f.num_vars) THEN "IndexError" ELSE NoErr,
                   !.pc = IF GridCallRaises(f.num_vars) THEN "raised" ELSE "after_loop"]
    ELSE [f EXCEPT !.i = @ + 1, !.out_of_range = OutOfRange(beta_hat),
                   !.fallback = TRUE, !.success = success,
                   !.beta = x, !.mu = FlooredMu(x), !.converged = success,
                   !.pc = "after_loop"]

\* lines 142-149: the update and the deviance ratio
irls_update(f, beta_hat, small) ==
    [f EXCEPT !.i = @ + 1, !.updates = @ + 1,
              !.beta = beta_hat, !.mu = FlooredMu(beta_hat),
              !.dev_small = small,
              !.pc = IF small THEN "after_loop" ELSE "loop"]

\* lines 92-149: one pass of the loop
irls_iterate(f, beta_hat, small, x, success) ==
    IF LeavesLoop(beta_hat, f.i + 1)
    THEN irls_fallback(f, beta_hat, x, success)
    ELSE irls_update(f, beta_hat, small)

\* lines 151-160
irls_return(f) ==
    [f EXCEPT !.pc = "returned",
              !.ret = [beta |-> f.beta, mu |-> f.mu, converged |-> f.converged]]

InitIrls ==
    /\ pc = "irls_glm"
    /\ inp = <<>>
    /\ dds = <<>>
    /\ sub = <<>>
    /\ glm \in {IrlsFrame(a) : a \in IrlsArgs}

IrlsStart ==
    /\ glm.pc = "start"
    /\ \E b \in InRangeBetas : glm' = irls_start(glm, b)
    /\ UNCHANGED <<pc, inp, dds, sub>>

IrlsIterate ==
    /\ glm.pc = "loop"
    /\ \E b \in SolvedBetas : \E small \in BOOLEAN :
       \E x \in InRangeBetas : \E success \in BOOLEAN :
           glm' = irls_iterate(glm, BetaVector(glm.num_vars, b), small,
                               BetaVector(glm.num_vars, x), success)
    /\ UNCHANGED <<pc, inp, dds, sub>>

IrlsReturn ==
    /\ glm.pc = "after_loop"
    /\ glm' = irls_return(glm)
    /\ UNCHANGED <<pc, inp, dds, sub>>

NextIrls == IrlsStart \/ IrlsIterate \/ IrlsReturn

SpecIrls == InitIrls /\ [][NextIrls]_vars

\* ------------------------------------------------------------------ claims
Last(s) == s[Len(s)]

InputAllZero(g) == \A s \in Samples : inp.counts[g][s] = 0

\* the per-gene results that the refit may write
PerGeneResults(o, g) ==
    <<o.normed_means[g], o.LFC[g], o.genewise_dispersions[g],
      o.fitted_dispersions[g], o.dispersions[g]>>

CutoffOf(o) == cooks_cutoff(Len(o.design[1]), o.n_obs - Len(o.design[1]))

HasOutlier(o, g) == \E s \in 1..o.n_obs : o.cooks[g][s] > CutoffOf(o)

\* C1: constructing the object fails with an error, before any stage runs,
\* whenever the counts and the CNV matrix differ in the number of rows or in
\* the number of columns.
C1_ShapeMismatchRejected ==
    (pc # "construct" /\ ShapeTestAnyDiffers(inp.counts, inp.cnv))
        => (pc = "aborted" /\ dds.err = "ValueError" /\ dds.log = <<>>)

\* C2: after a complete run of deseq2, refit included, every gene whose input
\* counts are all zero has NaN genewise, MAP and final dispersion, a NaN LFC
\* row and a NaN fitted mean, is flagged neither replaced nor refitted and is
\* no gene of the sub-problem; and a run that aborts does so for a reason that
\* holds of the other genes alone: every gene that is not all zero holds a
\* zero (the size factors cannot be fitted), or the sub-problem, which has no
\* all-zero gene, fails to evaluate a trend of type mean.
C2_AllZeroGenesStayNaN ==
    /\ pc = "done" =>
         \A g \in Genes : InputAllZero(g) =>
            /\ ~dds.non_zero[g]
            /\ IsNaN(dds.genewise_dispersions[g])
            /\ IsNaN(dds.MAP_dispersions[g])
            /\ IsNaN(dds.dispersions[g])
            /\ dds.LFC[g] = NaNRow
            /\ IsNaN(dds.mu_hat[g])
            /\ Has(dds, "replaced") => ~dds.replaced[g]
            /\ Has(dds, "refitted") => ~dds.refitted[g]
            /\ sub # <<>> =>
                 \A j \in 1..Len(sub[1].var_names) : sub[1].var_names[j] # GeneNames[g]
    /\ pc = "aborted" =>
         \/ /\ dds.log = <<"fit_size_factors">>
            /\ \A g \in Genes : ~InputAllZero(g) => \E s \in Samples : inp.counts[g][s] = 0
         \/ /\ Last(dds.log) = "refit"
            /\ sub # <<>>
            /\ sub[1].err = "AttributeError"
            /\ sub[1].disp_function_type = "mean"
            /\ \A j \in 1..sub[1].n_vars : \E s \in Samples : sub[1].counts[j][s] # 0

C2_Witness ==
    /\ pc = "done"
    /\ \E g \in Genes : InputAllZero(g)
    /\ sub # <<>>
    /\ \E g \in Genes : dds.refitted[g]

\* C3: in every state, every value of genewise_dispersions, MAP_dispersions
\* and dispersions, of the object and of the sub-problem, that is not NaN
\* lies between min_disp and the larger of max_disp and the number of samples.
UpperBound == Max(inp.cfg.max_disp, NSamples * UnitsPerOne)

InBounds(x) == IsNaN(x) \/ (inp.cfg.min_disp <= x /\ x <= UpperBound)

AllInBounds(arr) == \A g \in 1..Len(arr) : InBounds(arr[g])

DispersionsInBounds(o) ==
    /\ AllInBounds(o.genewise_dispersions)
    /\ AllInBounds(o.MAP_dispersions)
    /\ AllInBounds(o.dispersions)

C3_DispersionsWithinBounds ==
    /\ pc # "construct" => DispersionsInBounds(dds)
    /\ sub # <<>> => DispersionsInBounds(sub[1])

C3_Witness ==
    /\ pc = "done"
    /\ sub # <<>>
    /\ \E g \in Genes : dds.refitted[g] /\ dds.dispersions[g] = UpperBound
    /\ \E g \in Genes : dds.genewise_dispersions[g] = inp.cfg.min_disp

\* C4: the stages of deseq2 start in the order size factors, genewise
\* dispersions, trend, prior, MAP dispersions, LFC, Cook's distances, refit,
\* each once and each with the result of the one before it already stored; a
\* run that ends without error has run the first seven, and the refit exactly
\* when refit_cooks is set.
StageOrder ==
    <<"fit_size_factors", "fit_genewise_dispersions", "fit_dispersion_trend",
      "fit_dispersion_prior", "fit_MAP_dispersions", "fit_LFC", "calculate_cooks",
      "refit">>

StageResult ==
    <<"size_factors", "genewise_dispersions", "fitted_dispersions", "prior_disp_var",
      "dispersions", "LFC", "cooks", "refitted">>

C4_StagesInOrder ==
    pc # "construct" =>
        /\ Len(dds.log) <= Len(StageOrder)
        /\ dds.log = SubSeq(StageOrder, 1, Len(dds.log))
        /\ \A k \in 1..(Len(dds.log) - 1) : Has(dds, StageResult[k])
        /\ pc \notin {"aborted", "done"} => pc = StageOrder[Len(dds.log) + 1]
        /\ pc = "done" =>
             /\ Len(dds.log) = IF dds.refit_cooks THEN Len(StageOrder) ELSE Len(StageOrder) - 1
             /\ \A k \in 1..Len(dds.log) : Has(dds, StageResult[k])

C4_Witness ==
    /\ pc = "done"
    /\ dds.refit_cooks
    /\ dds.log = StageOrder
    /\ sub # <<>>

\* the index in the sub-problem of the gene g of the object
SubIndex(sb, g) == CHOOSE j \in 1..Len(sb.var_names) : sb.var_names[j] = GeneNames[g]

RefitEnded == pc \in {"done", "aborted"} /\ pc # "construct" /\ Len(dds.log) = Len(StageOrder)

\* C5: when the refit has ended and some replaced gene was left to refit, a
\* sub-problem exists whose genes are replaced genes, it has run the genewise
\* dispersions, the MAP dispersions and the LFC fit and no other stage, and
\* its size factors, trend type and parameters, squared log-residual and
\* prior variance are the ones of the object.
C5_RefitReusesParentFits ==
    (RefitEnded /\ Has(dds, "refitted") /\ CountTrue(dds.refitted) > 0) =>
        /\ sub # <<>>
        /\ \A j \in 1..Len(sub[1].var_names) :
              \E g \in Genes : GeneNames[g] = sub[1].var_names[j] /\ dds.replaced[g]
        /\ sub[1].log = <<"fit_genewise_dispersions", "fit_MAP_dispersions", "fit_LFC">>
        /\ sub[1].size_factors = dds.size_factors
        /\ sub[1].disp_function_type = dds.disp_function_type
        /\ sub[1].trend_coeffs = dds.trend_coeffs
        /\ sub[1].mean_disp = dds.mean_disp
        /\ Has(sub[1], "_squared_logres") /\ sub[1].squared_logres = dds.squared_logres
        /\ Has(sub[1], "prior_disp_var") /\ sub[1].prior_disp_var = dds.prior_disp_var

\* C6: a refit that ends without error leaves, at every refitted gene, the
\* normalised mean, the LFC row and the genewise, fitted and final
\* dispersions that the sub-problem holds for the gene of the same name, and
\* at every gene that is neither refitted nor newly all zero the values the
\* object held before the refit.
NewlyAllZero(o, g) ==
    \E i \in 1..Len(o.new_all_zeroes_genes) : o.new_all_zeroes_genes[i] = GeneNames[g]

C6_MergeAtRefittedGenes ==
    [][(pc = "refit" /\ pc' = "done") =>
         \A g \in Genes :
            IF dds'.refitted[g]
            THEN /\ sub' # <<>>
                 /\ PerGeneResults(dds', g) = PerGeneResults(sub'[1], SubIndex(sub'[1], g))
            ELSE NewlyAllZero(dds', g) \/ PerGeneResults(dds', g) = PerGeneResults(dds, g)]_vars

C6_Witness ==
    /\ pc = "done"
    /\ sub # <<>>
    /\ ~dds.refitted[1] /\ dds.non_zero[1]
    /\ \E g \in Genes : dds.refitted[g] /\ SubIndex(sub[1], g) # g
    /\ \E g \in Genes : dds.refitted[g] /\ dds.LFC[g].counts # inp.counts[g]

\* C7: an entry of the counts prepared for the refit differs from the raw
\* count of its sample and gene only if the sample belongs to a cohort of at
\* least min_replicates samples and the Cook's distance of that entry is
\* above the cutoff.
C7_OnlyOutlierEntriesReplaced ==
    (pc # "construct" /\ Has(dds, "counts_to_refit")) =>
        \A j \in 1..Len(dds.counts_to_refit) : \A s \in Samples :
            LET g == IndexOfLabel(dds, dds.refit_names[j])
            IN  dds.counts_to_refit[j][s] # inp.counts[g][s]
                    => (dds.replaceable[s] /\ dds.cooks[g][s] > CutoffOf(dds))

\* C8: the refit, however it ends, leaves the normalised mean, the LFC row
\* and the dispersions of every gene that has no Cook's distance above the
\* cutoff as they were.
C8_RefitTouchesOnlyOutlierGenes ==
    [][pc = "refit" =>
         \A g \in Genes :
            ~HasOutlier(dds, g) =>
                /\ PerGeneResults(dds', g) = PerGeneResults(dds, g)
                /\ dds'.MAP_dispersions[g] = dds.MAP_dispersions[g]
                /\ ~dds'.replaced[g]
                /\ Has(dds', "refitted") => ~dds'.refitted[g]]_vars

C8_Witness ==
    /\ pc = "done"
    /\ sub # <<>>
    /\ \E g \in Genes : HasOutlier(dds, g) /\ dds.refitted[g]
    /\ \E g \in Genes : ~HasOutlier(dds, g) /\ dds.non_zero[g]

\* C9: when no sample belongs to a cohort of at least min_replicates
\* samples, the refit ends without error, builds no sub-problem, flags no
\* gene as replaced or refitted and leaves every per-gene result as it was.
NoCohortLargeEnough(o) ==
    \A s \in 1..o.n_obs :
        Cardinality({t \in 1..o.n_obs : o.design[t] = o.design[s]}) < o.min_replicates

C9_NoReplaceableCohortSkipsRefit ==
    [][(pc = "refit" /\ NoCohortLargeEnough(dds)) =>
         /\ pc' = "done"
         /\ dds'.err = NoErr
         /\ sub' = <<>>
         /\ \A g \in Genes :
               /\ ~dds'.replaced[g]
               /\ ~dds'.refitted[g]
               /\ PerGeneResults(dds', g) = PerGeneResults(dds, g)
               /\ dds'.MAP_dispersions[g] = dds.MAP_dispersions[g]]_vars

C9_Witness ==
    /\ pc = "done"
    /\ Last(dds.log) = "refit"
    /\ NoCohortLargeEnough(dds)
    /\ \E g \in Genes : HasOutlier(dds, g)

\* C10: a replaced gene whose counts prepared for the refit are zero in every
\* sample is not refitted, is no gene of the sub-problem and ends with a zero
\* LFC row and a zero normalised mean; when every replaced gene is such a
\* gene, the refit builds no sub-problem.
PreparedCounts(o) == replace_outliers(Started(o, "refit"), inp.num, {})

ZeroAfterReplacement(r, j) == \A s \in 1..r.n_obs : r.counts_to_refit[j][s] = 0

C10_NewAllZeroGenesExcluded ==
    [][(pc = "refit" /\ CountTrue(PreparedCounts(dds).replaced) > 0) =>
         LET r == PreparedCounts(dds)
             n == Len(r.counts_to_refit)
         IN  /\ \A j \in 1..n :
                   ZeroAfterReplacement(r, j) =>
                      LET g == IndexOfLabel(dds, r.refit_names[j])
                      IN  /\ ~dds'.refitted[g]
                          /\ dds'.LFC[g] = ZeroRow
                          /\ dds'.normed_means[g] = 0
                          /\ sub' # <<>> =>
                               \A i \in 1..Len(sub'[1].var_names) :
                                   sub'[1].var_names[i] # GeneNames[g]
             /\ (\A j \in 1..n : ZeroAfterReplacement(r, j)) =>
                   (sub' = <<>> /\ pc' = "done")]_vars

C10_Witness ==
    /\ pc = "done"
    /\ sub # <<>>
    /\ Len(dds.new_all_zeroes_genes) > 0
    /\ \E g \in Genes : NewlyAllZero(dds, g) /\ dds.LFC[g] = ZeroRow /\ ~dds.refitted[g]

\* C11: in irls_glm the grid search is invoked only when the quasi-Newton
\* fallback ran and reported failure and the design matrix has exactly two
\* columns; with any other number of columns it is never invoked.
C11_GridSearchOnlyForTwoColumns ==
    glm.grid => (glm.fallback /\ ~glm.success /\ glm.num_vars = 2)

\* C12 as stated: irls_glm leaves the loop for the fallback exactly when a
\* newly solved coefficient is beyond max_beta or the iteration count exceeds
\* maxiter, so that with no coefficient out of range maxiter full updates
\* have been applied when the fallback is taken; the loop is bounded.
C12_FallbackAfterMaxIterUpdates ==
    /\ glm.i <= MaxIter + 1
    /\ (glm.fallback /\ ~glm.out_of_range) => glm.updates = MaxIter

\* C12 as the code has it: the fallback is taken exactly when a newly solved
\* coefficient is beyond max_beta or the iteration count reaches maxiter;
\* with no coefficient out of range maxiter - 1 full updates have been
\* applied when the fallback is taken, the result of the maxiter-th solve is
\* discarded, no coefficient beyond max_beta is ever applied, a loop that
\* ends without the fallback ended by the deviance-ratio test, and the
\* iteration count never passes maxiter.
C12_FallbackAtMaxIter ==
    /\ glm.i <= MaxIter
    /\ glm.updates <= MaxIter - 1
    /\ glm.fallback <=> (glm.out_of_range \/ glm.i = MaxIter)
    /\ (glm.fallback /\ ~glm.out_of_range) => glm.updates = MaxIter - 1
    /\ glm.pc # "start" => ~OutOfRange(glm.beta)
    /\ (glm.pc \in {"after_loop", "returned"} /\ ~glm.fallback) =>
           (glm.dev_small /\ glm.updates = glm.i)

C12_Witness ==
    /\ glm.pc = "returned"
    /\ glm.fallback
    /\ ~glm.out_of_range
    /\ glm.updates = MaxIter - 1

\* C13: the mean that irls_glm returns is not floored at min_mu: it equals
\* cnv * size_factors * exp(X beta) of the returned coefficients, also where
\* that is below min_mu.
C13_ReturnedMuUnthresholded ==
    glm.pc = "returned" => glm.ret.mu = ExpMu(glm.ret.beta)

\* C14: irls_glm never fails because an optimiser did not converge: every
\* call returns coefficients, a mean and a flag, and the flag is false
\* exactly when the quasi-Newton fallback ran and reported failure, the grid
\* search having supplied the coefficients or not.
C14_NonConvergenceNeverFatal ==
    /\ glm.pc # "raised"
    /\ glm.pc = "returned" =>
          (glm.ret.converged <=> ~(glm.fallback /\ ~glm.success))

\* C15: when the design matrix is not of full column rank, a warning is
\* emitted during construction or fitting: a run on such a design that has
\* ended without error has warned about the rank.
C15_RankDeficiencyWarns ==
    (pc = "done" /\ MatrixRank(inp.design) < Len(inp.design[1])) =>
        "design matrix is not full rank" \in dds.warnings

\* the objects of the run: the parent and, when one was built, the
\* sub-problem of the refit
Objects == (IF pc = "construct" THEN {} ELSE {dds}) \cup {sub[i] : i \in 1..Len(sub)}

\* the CNV column of the gene that has position j in the object o
OwnCnvColumn(o, j) == inp.cnv[o.var_names[j]]

\* the offsets the two fits of the object o have used for its non-zero
\* genes: the raw CNV column in the genewise mean fit, the column rescaled
\* as cnv / 2 + 0.1 in the LFC fit
UsesOwnCnv(o) ==
    /\ (Has(o, "_mu_hat") /\ ~OneRowPerColumn(o.design)) =>
          \A j \in 1..o.n_vars : o.non_zero[j] =>
              o.mu_hat[j] = irls_mu(o.counts[j], RawOffset(OwnCnvColumn(o, j)),
                                    o.size_factors)
    /\ Has(o, "LFC") =>
          \A j \in 1..o.n_vars : o.LFC[j].kind = "fit" =>
              o.LFC[j].cnv = RescaledOffset(OwnCnvColumn(o, j))

\* C16: fit_LFC passes the CNV values rescaled as cnv / 2 + 0.1 as the
\* offset and the genewise dispersion step passes the raw CNV values, and in
\* both fits the offset of a gene is the CNV column of that same gene, in
\* every object that runs them.
C16_OffsetsFromOwnCnvColumn == \A o \in Objects : UsesOwnCnv(o)

\* the statement of C16 for the parent alone, while no refit has merged
\* the results of a sub-problem into it
C16_ParentBeforeRefit == (pc \notin {"construct", "done", "aborted"}) => UsesOwnCnv(dds)
C16_ParentWitness ==
    /\ pc = "calculate_cooks" /\ ~OneRowPerColumn(dds.design)
    /\ \E g \in Genes : dds.non_zero[g]

\* the objects whose dispersions are those fit_MAP_dispersions wrote: the
\* parent until the refit merges into it, and the sub-problem
ObjectsAfterMAP ==
    {o \in (IF pc \in {"fit_LFC", "calculate_cooks", "refit"} THEN {dds} ELSE {})
             \cup {sub[i] : i \in 1..Len(sub)} : Has(o, "dispersions")}

FlaggedOutlier(o, g) ==
    IsDispersionOutlier(o.genewise_dispersions[g], o.fitted_dispersions[g],
                        o.squared_logres)

\* C17: after fit_MAP_dispersions the final dispersion of every non-zero
\* gene is its genewise dispersion if log(genewise) > log(fitted) +
\* 2 * sqrt(squared_logres), in which case the gene is flagged as an
\* outlier, and its MAP dispersion otherwise.
C17_OutliersKeepGenewise ==
    \A o \in ObjectsAfterMAP : \A g \in 1..o.n_vars : o.non_zero[g] =>
        /\ o.outlier_genes[g] <=> FlaggedOutlier(o, g)
        /\ o.dispersions[g] = IF FlaggedOutlier(o, g)
                              THEN o.genewise_dispersions[g]
                              ELSE o.MAP_dispersions[g]

C17_Witness ==
    /\ pc = "fit_LFC"
    /\ \E g \in Genes : /\ dds.non_zero[g]
                        /\ FlaggedOutlier(dds, g)
                        /\ dds.genewise_dispersions[g] # dds.MAP_dispersions[g]
    /\ \E g \in Genes : dds.non_zero[g] /\ ~FlaggedOutlier(dds, g)

\* the parametric fit of the run does not converge or yields a coefficient
\* that is not above 1e-10
TrendFitFails == inp.cfg.fit_type = "parametric" /\ ~inp.num.glm_ok

\* C18: when the parametric trend fit reports non-convergence or yields a
\* coefficient that is not above 1e-10, fit_dispersion_trend does not fail:
\* it warns, the trend type becomes "mean", the fitted dispersion of every
\* gene is the trimmed mean of the genewise dispersions above 10 * min_disp,
\* and the call stores no parametric trend coefficients.
C18_TrendFallsBackToMean ==
    [][(pc = "fit_dispersion_trend" /\ TrendFitFails) =>
          /\ pc' = "fit_dispersion_prior"
          /\ dds'.err = NoErr
          /\ "trend did not converge" \in dds'.warnings
          /\ dds'.disp_function_type = "mean"
          /\ dds'.mean_disp =
                trim_mean(Gather(dds.genewise_dispersions, MeanTrendGenes(dds)))
          /\ \A g \in Genes : dds'.fitted_dispersions[g] = dds'.mean_disp
          /\ ~Has(dds', "trend_coeffs")
          /\ dds'.trend_coeffs = dds.trend_coeffs]_vars

C18_Witness ==
    /\ pc = "fit_dispersion_prior"
    /\ TrendFitFails
    /\ dds.disp_function_type = "mean"
    /\ ~IsNaN(dds.mean_disp)
    /\ \E g \in Genes : ~dds.non_zero[g]

\* the ratio of a gene's own genewise dispersion to its prediction is out of
\* [1e-4, 15)
OwnRatioOutOfRange(o, S, label) ==
    \E gw \in {o.genewise_dispersions[IndexOfLabel(o, label)]} :
    \E pred \in {dispersion_trend(o.normed_means[IndexOfLabel(o, label)],
                                  GlmCoeffs(S))} :
        /\ ~IsNaN(gw)
        /\ \/ gw <= (pred - 1) \div RatioLowInverse
           \/ gw \div RatioHigh >= pred

\* the genes of the last fit when every round removes exactly the genes whose
\* own ratio is out of range
RECURSIVE OwnRatioRounds(_, _, _)
OwnRatioRounds(o, S, fitted) ==
    IF fitted = S THEN S
    ELSE OwnRatioRounds(o, {l \in S : ~OwnRatioOutOfRange(o, S, l)}, S)

\* C19: each round of the parametric trend loop removes from the fitted
\* genes exactly those whose own genewise dispersion over the prediction is
\* below 1e-4 or at least 15, whatever the position of the all-zero genes,
\* so the stored coefficients are those of the fit on the genes that
\* survive these rounds.
C19_RoundsRemoveOwnOutliers ==
    [][(pc = "fit_dispersion_trend" /\ inp.cfg.fit_type = "parametric"
            /\ inp.num.glm_ok /\ pc' = "fit_dispersion_prior") =>
          dds'.trend_coeffs =
              GlmCoeffs(OwnRatioRounds(dds, TrendGenes(dds), {0}))]_vars

\* C20: fit_MAP_dispersions is idempotent: a second call on the same object,
\* with counts, fitted means, trend and prior variance unchanged, leaves the
\* MAP dispersions, the outlier flags and the final dispersions as the first
\* call stored them.
C20_MAPIdempotent ==
    [][(pc = "fit_LFC" /\ pc' # "fit_LFC") =>
          /\ pc' = "called_twice"
          /\ dds'.MAP_dispersions = dds.MAP_dispersions
          /\ dds'.outlier_genes = dds.outlier_genes
          /\ dds'.dispersions = dds.dispersions]_vars

C20_Witness ==
    /\ pc = "called_twice"
    /\ \E g \in Genes : dds.outlier_genes[g] /\ dds.dispersions[g] # dds.MAP_dispersions[g]
    /\ \E g \in Genes : ~dds.outlier_genes[g] /\ ~IsNaN(dds.dispersions[g])

\* the rough and the moments estimate of gene g of object o
RoughOf(o, g) == fit_rough_dispersions(inp.num, o.normed_counts[g])
MomentsOf(o, g) == fit_moments_dispersions2(o.normed_counts[g], o.size_factors)

\* the smaller of two estimates, clipped to [lo, hi]
ClippedMinimum(a, b, lo, hi) ==
    IF a <= b
    THEN (IF a < lo THEN lo ELSE IF a > hi THEN hi ELSE a)
    ELSE (IF b < lo THEN lo ELSE IF b > hi THEN hi ELSE b)

C22_GridArgumentsReachSameMeaning ==
    glm.grid =>
        glm.grid_bound = [counts |-> "counts", size_factors |-> "size_factors",
                          design_matrix |-> "X", disp |-> "disp", cnv |-> "cnv"]

\* an offset of 1 for every sample, in tenths
UnitOffset == [s \in Samples |-> 10]

\* the fit of the initial means has just run in the parent
GenewiseJustRan == pc = "fit_genewise_dispersions" /\ pc' = "fit_dispersion_trend"

SubProblems == {sub[i] : i \in 1..Len(sub)}

\* C24 as stated: the sub-problem holds its own copy of the size factors
\* and receives the trend parameters by value, so that none of its arrays
\* is the same object as an array of the parent.
C24_SubProblemSharesNoArray == \A sb \in SubProblems : sb.shared = {}

\* C24 amended: the sub-problem holds the parent's CNV matrix and size
\* factors, and with a parametric trend the parent's trend coefficients,
\* as the same objects; no step of the refit writes to one of them, so
\* each reads the same through the parent and through the sub-problem.
C24_SharedArraysNeverWritten ==
    \A sb \in SubProblems :
        /\ {"cnv", "size_factors"} \subseteq sb.shared
        /\ sb.shared \subseteq {"cnv", "size_factors", "trend_coeffs"}
        /\ sb.cnv = dds.cnv /\ dds.cnv = inp.cnv
        /\ sb.size_factors = dds.size_factors
        /\ "trend_coeffs" \in sb.shared => sb.trend_coeffs = dds.trend_coeffs

C24_Witness ==
    /\ pc = "done"
    /\ \E sb \in SubProblems :
          /\ sb.err = NoErr
          /\ Has(sb, "LFC")
          /\ "trend_coeffs" \in sb.shared

\* C25: a refit whose parent used the mean trend, chosen directly or
\* reached by fallback, completes: disp_function returns the stored mean
\* dispersion for every input, so every refitted gene of the sub-problem
\* has a fitted dispersion equal to the parent's mean dispersion.
C25_MeanTrendRefitCompletes ==
    [][(pc = "refit" /\ dds.disp_function_type = "mean" /\ sub' # <<>>) =>
          /\ pc' = "done"
          /\ sub'[1].err = NoErr
          /\ \A j \in 1..sub'[1].n_vars :
                sub'[1].fitted_dispersions[j] = dds.mean_disp]_vars

\* the result each stage stores, in pipeline order
StageResults ==
    << <<"fit_size_factors", "size_factors">>,
       <<"fit_genewise_dispersions", "genewise_dispersions">>,
       <<"fit_dispersion_trend", "fitted_dispersions">>,
       <<"fit_dispersion_prior", "prior_disp_var">>,
       <<"fit_MAP_dispersions", "dispersions">>,
       <<"fit_LFC", "LFC">>,
       <<"calculate_cooks", "cooks">>,
       <<"refit", "refitted">> >>

StageIndex(stage) == CHOOSE i \in 1..Len(StageResults) : StageResults[i][1] = stage

\* a stage has just been called on a fresh object
CalledOnFresh == pc = "fit_size_factors" /\ pc' # pc

\* C26: a stage invoked on a freshly constructed object first runs every
\* earlier pipeline stage whose result is missing and then completes its
\* own: no stage reads a result field that has not been computed, and when
\* the call returns the results of the stage and of every earlier stage
\* are stored.
C26_StagesRunMissingPrerequisites ==
    [][CalledOnFresh =>
          /\ dds'.err # "KeyError"
          /\ dds'.err = NoErr =>
                \A i \in 1..StageIndex(dds'.log[1]) : Has(dds', StageResults[i][2])]_vars

\* the part of C26 that concerns the stages up to fit_LFC
C26_UpToLFC ==
    [][(CalledOnFresh /\ StageIndex(dds'.log[1]) <= 6) =>
          /\ dds'.err # "KeyError"
          /\ dds'.err = NoErr =>
                \A i \in 1..StageIndex(dds'.log[1]) : Has(dds', StageResults[i][2])]_vars

\* C27: the CNV matrix of the refit sub-problem has the shape and the gene
\* order of the sub-problem's counts: its column j is the CNV column of the
\* gene whose counts are column j, so every refitted gene is fitted against
\* its own CNV column.
C27_SubProblemCnvMatchesCounts ==
    \A sb \in SubProblems :
        /\ Len(sb.cnv) = sb.n_vars
        /\ \A j \in 1..sb.n_vars : sb.cnv[j] = inp.cnv[sb.var_names[j]]

\* C28: fit_dispersion_prior takes the log residuals from exactly the
\* non-zero genes, each paired with its own genewise and fitted dispersion,
\* whatever the position of the all-zero genes: the genes that enter the
\* estimate are the non-zero genes whose genewise dispersion is at least
\* 100 * min_disp.
C28_PriorUsesExactlyNonZeroGenes ==
    pc = "fit_MAP_dispersions" =>
        dds.prior_genes =
            Where([g \in 1..dds.n_vars |->
                     /\ dds.non_zero[g]
                     /\ dds.genewise_dispersions[g] >= PriorFactor * dds.min_disp])

\* the stages the sub-problem may have run, in order
SubProblemStages == <<"fit_genewise_dispersions", "fit_MAP_dispersions", "fit_LFC">>

IsPrefixOf(a, b) == Len(a) <= Len(b) /\ \A i \in 1..Len(a) : a[i] = b[i]

\* a sub-problem carries the parent's refit_cooks flag and has run nothing
\* but genewise dispersion, MAP dispersion and LFC fitting
SubProblemsStopAtLFC ==
    /\ Len(sub) <= 1
    /\ \A sb \in SubProblems :
          /\ sb.refit_cooks = dds.refit_cooks
          /\ IsPrefixOf(sb.log, SubProblemStages)
          /\ ~Has(sb, "cooks") /\ ~Has(sb, "replaced") /\ ~Has(sb, "refitted")

C30_SecondRunCompletes ==
    /\ (pc # "construct" /\ Runs(dds) >= 2) => dds.err = NoErr
    /\ pc # "construct" => dds.counts = inp.counts

\* the part of C30 about the raw counts
C30_RawCountsKept == pc # "construct" => dds.counts = inp.counts

====
